---- MODULE Spec2Model ----
(***************************************************************************)
(* Batch audio generation of the vocabulary application.                   *)
(*                                                                         *)
(*   - the React hook useWords (src/hooks/useWords.ts): generateAudioBatch *)
(*     and generateAudio, with the words state kept by useLocalStorage     *)
(*     (src/hooks/useLocalStorage.ts);                                     *)
(*   - the streaming endpoint processBatchRequest                          *)
(*     (src/app/api/generate-audio-batch/route.ts, lines 1-246).           *)
(*                                                                         *)
(* Spec       : the hook, driven by calls, stream events and renders.      *)
(* SpecRunner : one run of processBatchRequest over a request body.        *)
(***************************************************************************)
EXTENDS Integers, Sequences, FiniteSets, TLC

(***************************************************************************)
(* Bounds of the model.                                                    *)
(***************************************************************************)
\* longest list of word ids handed to generateAudioBatch
MaxIds == 2
\* longest words array of a request body handed to processBatchRequest
MaxWords == 3
\* most invocations of generateAudioBatch and generateAudio in one behaviour
MaxCalls == 2
\* longest list of word ids of the one invocation of SpecJob
MaxJobIds == 3
\* most bytes of a response body handed to the decoder
MaxBytes == 5

(***************************************************************************)
(* Values.                                                                 *)
(***************************************************************************)
\* WordStatus (src/lib/types.ts)
IDLE == "idle"
PENDING == "pending"
GENERATING == "generating"
COMPLETE == "complete"
ERROR == "error"
WordStatus == {IDLE, PENDING, GENERATING, COMPLETE, ERROR}

\* an absent optional field (undefined)
None == "undefined"

\* the words of the store: addWord uses the word itself as its id
WordIds == {"a", "b", "c", "d"}
\* the stored words the callers of Spec select
Selectable == {"a", "b", "c"}
\* an id no word of the store has
UnknownId == "z"
\* languageCode of each stored word
LanguageOf == [id \in WordIds |-> IF id = "c" THEN "french" ELSE "spanish"]

\* the values of enum Language the stored words use
Languages == {"spanish", "french"}

Range(s) == {s[k] : k \in 1..Len(s)}

(***************************************************************************)
(* The wire records (ProgressUpdate, WordProcessingResult).  A field the   *)
(* JSON object does not carry is None, -1 for a number, <<>> for a list.   *)
(***************************************************************************)
Absent == 0 - 1
NoPath == <<>>
\* `/audio/${language}_${word}.mp3`
AudioPath(language, word) == <<language, word>>
\* completion.choices[0].message.content, opaque
Explanation(word) == <<"explanation", word>>
NoExplanation == <<>>
\* error.message of a failed provider call
ProviderError == "provider error"

NoResult ==
  [word |-> None, success |-> FALSE, filePath |-> NoPath,
   explanation |-> NoExplanation, error |-> None, language |-> None]

SuccessResult(word, language) ==
  [word |-> word, success |-> TRUE, filePath |-> AudioPath(language, word),
   explanation |-> Explanation(word), error |-> None, language |-> language]

FailureResult(word, language) ==
  [word |-> word, success |-> FALSE, filePath |-> NoPath,
   explanation |-> NoExplanation, error |-> ProviderError, language |-> language]

ProgressEvent(processed, total, word) ==
  [type |-> "progress", processed |-> processed, total |-> total,
   currentWord |-> word, result |-> NoResult, allResults |-> <<>>, error |-> None]

ResultEvent(processed, total, result) ==
  [type |-> "result", processed |-> processed, total |-> total,
   currentWord |-> None, result |-> result, allResults |-> <<>>, error |-> None]

CompleteEvent(total, allResults) ==
  [type |-> "complete", processed |-> total, total |-> total,
   currentWord |-> None, result |-> NoResult, allResults |-> allResults, error |-> None]

ErrorEvent(message) ==
  [type |-> "error", processed |-> Absent, total |-> Absent,
   currentWord |-> None, result |-> NoResult, allResults |-> <<>>, error |-> message]

(***************************************************************************)
(* State.                                                                  *)
(***************************************************************************)
VARIABLES
  \* --- the hook useWords (one mounted component) ---
  words,              \* useLocalStorage state of StorageKeys.WORDS: the value last set
  isGenerating,       \* useState flag: the value last set
  generationProgress, \* useState GenerationProgress: the value last set
  rendered,           \* what the callbacks of the last render close over
  job,                \* the invocations of generateAudioBatch, by caller
  single,             \* the invocation of generateAudio
  calls,              \* the invocations made so far
  etaDue,             \* a dependency of the effect of 505-518 was set since its last run
  \* --- one run of processBatchRequest ---
  runnerPc,           \* position in processBatchRequest
  body,               \* the request body: its words array, or not a usable body
  apiKey,             \* process.env.OPENAI_API_KEY is set
  setupOk,            \* the client, the language configuration and the audio
                      \* directory can be set up
  providerFails,      \* the indexes (1-based) of the words whose provider call throws
  i,                  \* the loop index
  results,            \* results: WordProcessingResult[]
  writerClosed,       \* the local writerClosed
  emitted,            \* the data handed to safeWrite, in order
  wire,               \* the lines the writer accepted, in order
  writerState,        \* the WritableStreamDefaultWriter: writable, errored or closed
  closeCalls,         \* the calls of writer.close() made so far
  failingCall,        \* the provider call that throws for those words: explain or speech
  providerCalls,      \* the provider calls made so far, in order
  \* --- the read loop of generateAudioBatch over one response body ---
  bytes,              \* the bytes of the response body
  chunks,             \* the chunks reader.read() is still to yield
  buffer,             \* the local buffer
  pending,            \* the bytes the TextDecoder keeps back for the next chunk
  decoded,            \* the values JSON.parse returned, in order
  readerDone          \* reader.read() has yielded done

hookVars ==
  <<words, isGenerating, generationProgress, rendered, job, single, calls, etaDue>>
runnerVars ==
  <<runnerPc, body, apiKey, setupOk, providerFails, i, results, writerClosed,
    emitted, wire, writerState, closeCalls, failingCall, providerCalls>>
decoderVars == <<bytes, chunks, buffer, pending, decoded, readerDone>>
vars == <<hookVars, runnerVars, decoderVars>>

(***************************************************************************)
(* processBatchRequest (route.ts 97-246).                                  *)
(***************************************************************************)
\* the texts a request body can carry
Texts == Selectable

RECURSIVE SeqsUpTo(_, _)
\* all sequences over S of length 0..n
SeqsUpTo(S, n) ==
  IF n = 0 THEN {<<>>}
  ELSE LET shorter == SeqsUpTo(S, n - 1)
       IN shorter \cup {Append(q, x) : q \in {r \in shorter : Len(r) = n - 1}, x \in S}

\* a request body: json() rejects (unparseable), words is no array, or words is an
\* array of texts
Body(kind, ws, language) == [kind |-> kind, words |-> ws, language |-> language]
Bodies ==
  {Body("unparseable", <<>>, "spanish"), Body("notArray", <<>>, "spanish")}
    \cup {Body("array", ws, language) :
             ws \in SeqsUpTo(Texts, MaxWords), language \in Languages}
\* the body passes the validation of lines 110-116
UsableBody == body.kind = "array" /\ body.words # <<>>

\* safeWrite never throws: a write on a writer that is not writable returns false
SafeWrite(data) ==
  /\ emitted' = Append(emitted, data)
  /\ wire' = IF writerState = "writable" THEN Append(wire, data) ELSE wire

\* safeClose never throws: close() on an errored or closed writer is caught
SafeClose ==
  /\ closeCalls' = closeCalls + 1
  /\ writerState' = IF writerState = "writable" THEN "closed" ELSE writerState

\* request.json() rejects: the outer catch writes the error event
RParseFail ==
  /\ runnerPc = "parse"
  /\ body.kind = "unparseable"
  /\ SafeWrite(ErrorEvent("invalid body"))
  /\ runnerPc' = "finally"
  /\ UNCHANGED <<body, apiKey, setupOk, providerFails, i, results, writerClosed, writerState, closeCalls, failingCall, providerCalls>>
  /\ UNCHANGED <<hookVars, decoderVars>>

\* RRejectWords closing the writer itself before its return: the finally block then
\* closes a second time
RRejectWords_ClosesWriter ==
  /\ runnerPc = "parse"
  /\ body.kind # "unparseable"
  /\ ~UsableBody
  /\ SafeWrite(ErrorEvent("Words array is required and must not be empty"))
  /\ SafeClose
  /\ runnerPc' = "finally"
  /\ UNCHANGED <<body, apiKey, setupOk, providerFails, i, results, writerClosed,
                 failingCall, providerCalls>>
  /\ UNCHANGED <<hookVars, decoderVars>>

\* !Array.isArray(words) || words.length === 0
RRejectWords ==
  /\ runnerPc = "parse"
  /\ body.kind # "unparseable"
  /\ ~UsableBody
  /\ SafeWrite(ErrorEvent("Words array is required and must not be empty"))
  /\ runnerPc' = "finally"
  /\ UNCHANGED <<body, apiKey, setupOk, providerFails, i, results, writerClosed, writerState, closeCalls, failingCall, providerCalls>>
  /\ UNCHANGED <<hookVars, decoderVars>>

\* RRejectKey without the return of line 125: the run goes on into the loop
RRejectKey_FallsThrough ==
  /\ runnerPc = "parse"
  /\ UsableBody
  /\ ~apiKey
  /\ SafeWrite(ErrorEvent("OpenAI API key is not configured"))
  /\ runnerPc' = "progress"
  /\ i' = 0
  /\ results' = <<>>
  /\ UNCHANGED <<body, apiKey, setupOk, providerFails, writerClosed, writerState, closeCalls, failingCall, providerCalls>>
  /\ UNCHANGED <<hookVars, decoderVars>>

\* !apiKey
RRejectKey ==
  /\ runnerPc = "parse"
  /\ UsableBody
  /\ ~apiKey
  /\ SafeWrite(ErrorEvent("OpenAI API key is not configured"))
  /\ runnerPc' = "finally"
  /\ UNCHANGED <<body, apiKey, setupOk, providerFails, i, results, writerClosed, writerState, closeCalls, failingCall, providerCalls>>
  /\ UNCHANGED <<hookVars, decoderVars>>

\* new OpenAI, getLanguageConfig or ensureDirectoryExists throws (128-135): the
\* outer catch writes the error update
RSetupFails ==
  /\ runnerPc = "parse"
  /\ UsableBody
  /\ apiKey
  /\ ~setupOk
  /\ SafeWrite(ErrorEvent("setup failed"))
  /\ runnerPc' = "finally"
  /\ UNCHANGED <<body, apiKey, setupOk, providerFails, i, results, writerClosed,
                 writerState, closeCalls, failingCall, providerCalls>>
  /\ UNCHANGED <<hookVars, decoderVars>>

\* the preconditions hold: const results = [], i = 0 (137-139)
RLoopStart ==
  /\ runnerPc = "parse"
  /\ UsableBody
  /\ apiKey
  /\ setupOk
  /\ runnerPc' = "progress"
  /\ i' = 0
  /\ results' = <<>>
  /\ UNCHANGED <<body, apiKey, setupOk, providerFails, writerClosed, emitted, wire,
                 writerState, closeCalls, failingCall, providerCalls>>
  /\ UNCHANGED <<hookVars, decoderVars>>

\* RProgress with the count of the result update: processed: i + 1
RProgress_CountsAhead ==
  /\ runnerPc = "progress"
  /\ i < Len(body.words)
  /\ SafeWrite(ProgressEvent(i + 1, Len(body.words), body.words[i + 1]))
  /\ runnerPc' = "provider"
  /\ UNCHANGED <<body, apiKey, setupOk, providerFails, i, results, writerClosed,
                 writerState, closeCalls, failingCall, providerCalls>>
  /\ UNCHANGED <<hookVars, decoderVars>>

\* the head of the loop body: the progress update of words[i]
RProgress ==
  /\ runnerPc = "progress"
  /\ i < Len(body.words)
  /\ SafeWrite(ProgressEvent(i, Len(body.words), body.words[i + 1]))
  /\ runnerPc' = "provider"
  /\ UNCHANGED <<body, apiKey, setupOk, providerFails, i, results, writerClosed, writerState, closeCalls, failingCall, providerCalls>>
  /\ UNCHANGED <<hookVars, decoderVars>>

\* a call of the provider: chat.completions.create with the prompt of the word, or
\* audio.speech.create with an explanation
ProviderCall(call, item, input) == [call |-> call, item |-> item, input |-> input]

\* formatPrompt(userPromptTemplate, word): the user message of the chat call
Prompt(word) == <<"prompt", word>>

\* the call that throws for the word of index item, if any
Throws(item, call) == item \in providerFails /\ failingCall = call

\* chat.completions.create returns the explanation of words[i] (152-165)
RExplain ==
  /\ runnerPc = "provider"
  /\ ~Throws(i + 1, "explain")
  /\ providerCalls' = Append(providerCalls,
                             ProviderCall("explain", i + 1, Prompt(body.words[i + 1])))
  /\ runnerPc' = "speech"
  /\ UNCHANGED <<body, apiKey, setupOk, providerFails, i, results, writerClosed, emitted,
                 wire, writerState, closeCalls, failingCall>>
  /\ UNCHANGED <<hookVars, decoderVars>>

\* audio.speech.create returns, the file is written, the result update is written
\* (167-201)
RItemSucceeds ==
  /\ runnerPc = "speech"
  /\ ~Throws(i + 1, "speech")
  /\ providerCalls' = Append(providerCalls,
                             ProviderCall("speech", i + 1, Explanation(body.words[i + 1])))
  /\ LET result == SuccessResult(body.words[i + 1], body.language)
     IN /\ results' = Append(results, result)
        /\ SafeWrite(ResultEvent(i + 1, Len(body.words), result))
  /\ i' = i + 1
  /\ runnerPc' = "progress"
  /\ UNCHANGED <<body, apiKey, setupOk, providerFails, writerClosed, writerState,
                 closeCalls, failingCall>>
  /\ UNCHANGED <<hookVars, decoderVars>>

\* the provider call the run is at
CallAt ==
  IF runnerPc = "provider"
    THEN ProviderCall("explain", i + 1, Prompt(body.words[i + 1]))
    ELSE ProviderCall("speech", i + 1, Explanation(body.words[i + 1]))

\* the run is at a provider call that throws
CallThrows ==
  \/ runnerPc = "provider" /\ Throws(i + 1, "explain")
  \/ runnerPc = "speech" /\ Throws(i + 1, "speech")

\* RItemFails without the try/catch of the loop body: the exception reaches the
\* outer catch, which writes the error update and ends the run
RItemFails_Aborts ==
  /\ CallThrows
  /\ providerCalls' = Append(providerCalls, CallAt)
  /\ SafeWrite(ErrorEvent(ProviderError))
  /\ runnerPc' = "finally"
  /\ UNCHANGED <<body, apiKey, setupOk, providerFails, i, results, writerClosed,
                 writerState, closeCalls, failingCall>>
  /\ UNCHANGED <<hookVars, decoderVars>>

\* RItemFails with the call that threw made a second time before the failure is
\* reported
RItemFails_Retries ==
  /\ CallThrows
  /\ providerCalls' = providerCalls \o <<CallAt, CallAt>>
  /\ LET result == FailureResult(body.words[i + 1], body.language)
     IN /\ results' = Append(results, result)
        /\ SafeWrite(ResultEvent(i + 1, Len(body.words), result))
  /\ i' = i + 1
  /\ runnerPc' = "progress"
  /\ UNCHANGED <<body, apiKey, setupOk, providerFails, writerClosed, writerState,
                 closeCalls, failingCall>>
  /\ UNCHANGED <<hookVars, decoderVars>>

\* a provider call threw: the catch of the loop body writes the failed result
\* (203-222)
RItemFails ==
  /\ CallThrows
  /\ providerCalls' = Append(providerCalls, CallAt)
  /\ LET result == FailureResult(body.words[i + 1], body.language)
     IN /\ results' = Append(results, result)
        /\ SafeWrite(ResultEvent(i + 1, Len(body.words), result))
  /\ i' = i + 1
  /\ runnerPc' = "progress"
  /\ UNCHANGED <<body, apiKey, setupOk, providerFails, writerClosed, writerState,
                 closeCalls, failingCall>>
  /\ UNCHANGED <<hookVars, decoderVars>>

\* RComplete with a throw after the complete update was written: the outer catch
\* writes an error update behind it
RComplete_ThenThrows ==
  /\ runnerPc = "progress"
  /\ i >= Len(body.words)
  /\ LET written == <<CompleteEvent(Len(body.words), results), ErrorEvent(ProviderError)>>
     IN /\ emitted' = emitted \o written
        /\ wire' = IF writerState = "writable" THEN wire \o written ELSE wire
  /\ runnerPc' = "finally"
  /\ UNCHANGED <<body, apiKey, setupOk, providerFails, i, results, writerClosed,
                 writerState, closeCalls, failingCall, providerCalls>>
  /\ UNCHANGED <<hookVars, decoderVars>>

\* after the loop: the complete update
RComplete ==
  /\ runnerPc = "progress"
  /\ i >= Len(body.words)
  /\ SafeWrite(CompleteEvent(Len(body.words), results))
  /\ runnerPc' = "finally"
  /\ UNCHANGED <<body, apiKey, setupOk, providerFails, i, results, writerClosed, writerState, closeCalls, failingCall, providerCalls>>
  /\ UNCHANGED <<hookVars, decoderVars>>

\* finally: close the writer once
RFinally ==
  /\ runnerPc = "finally"
  /\ IF ~writerClosed
       THEN writerClosed' = TRUE /\ SafeClose
       ELSE UNCHANGED <<writerClosed, writerState, closeCalls>>
  /\ runnerPc' = "returned"
  /\ UNCHANGED <<body, apiKey, setupOk, providerFails, i, results, emitted, wire,
                 failingCall, providerCalls>>
  /\ UNCHANGED <<hookVars, decoderVars>>

\* the consumer of the response goes away: the writable side errors
ClientCancel ==
  /\ runnerPc # "returned"
  /\ writerState = "writable"
  /\ writerState' = "errored"
  /\ UNCHANGED <<runnerPc, body, apiKey, setupOk, providerFails, i, results, writerClosed,
                 emitted, wire, closeCalls, failingCall, providerCalls>>
  /\ UNCHANGED <<hookVars, decoderVars>>

RunnerInitAt(b, key, setup, fails, failing) ==
  /\ failingCall = failing
  /\ providerCalls = <<>>
  /\ runnerPc = "parse"
  /\ body = b
  /\ apiKey = key
  /\ setupOk = setup
  /\ providerFails = fails
  /\ i = 0
  /\ results = <<>>
  /\ writerClosed = FALSE
  /\ emitted = <<>>
  /\ wire = <<>>
  /\ writerState = "writable"
  /\ closeCalls = 0

NextRunner ==
  \/ RParseFail
  \/ RRejectWords
  \/ RRejectKey
  \/ RSetupFails
  \/ RLoopStart
  \/ RProgress
  \/ RExplain
  \/ RItemSucceeds
  \/ RItemFails
  \/ RComplete
  \/ RFinally
  \/ ClientCancel

(***************************************************************************)
(* The response of one batch request as its consumer receives it: what     *)
(* the loop of processBatchRequest writes for the words ws when the        *)
(* provider calls of the indexes in fails throw (route.ts 137-231), and    *)
(* what it writes when a precondition fails (route.ts 104-135, 233-238).   *)
(***************************************************************************)
ItemResult(ws, language, fails, k) ==
  IF k \in fails THEN FailureResult(ws[k], language) ELSE SuccessResult(ws[k], language)

RunnerStream(ws, language, fails) ==
  LET n == Len(ws)
      allResults == [k \in 1..n |-> ItemResult(ws, language, fails, k)]
  IN [e \in 1..(2 * n + 1) |->
        IF e = 2 * n + 1 THEN CompleteEvent(n, allResults)
        ELSE IF e % 2 = 1 THEN ProgressEvent((e - 1) \div 2, n, ws[(e + 1) \div 2])
        ELSE ResultEvent(e \div 2, n, ItemResult(ws, language, fails, e \div 2))]

PreconditionStream == <<ErrorEvent("OpenAI API key is not configured")>>

\* a line of a response that is no JSON text
MalformedLine ==
  [type |-> "malformed", processed |-> Absent, total |-> Absent,
   currentWord |-> None, result |-> NoResult, allResults |-> <<>>, error |-> None]

\* the lines s with the line x put in as line k
InsertAt(s, k, x) == SubSeq(s, 1, k - 1) \o <<x>> \o SubSeq(s, k, Len(s))

(***************************************************************************)
(* The read loop of generateAudioBatch as a decoder (useWords.ts 378-406): *)
(* the bytes of a chunk are decoded as UTF-8 by a streaming TextDecoder,   *)
(* the text is added to a buffer, the buffer is split at newlines, the     *)
(* part after the last newline stays in the buffer, and every other part   *)
(* that is not blank is handed to JSON.parse.  The bytes are a newline, a  *)
(* digit, a blank, an opening brace and the two bytes of one two-byte      *)
(* character: the JSON texts over them are the numbers 1, 11, ..., with    *)
(* blanks around them.                                                     *)
(***************************************************************************)
Newline == "\n"
Digit == "1"
Blank == " "
Brace == "{"
\* the first and the second byte of the two-byte character
Lead == "C3"
Trail == "A9"
Bytes == {Newline, Digit, Blank, Brace, Lead, Trail}
\* the two-byte character, and U+FFFD for bytes that are no UTF-8
Accent == "e-acute"
Replacement == "U+FFFD"

RECURSIVE Utf8Decode(_, _)
\* decoder.decode(value, { stream: true }): held is the byte kept back from the
\* chunk before; the result is the text and the byte kept back for the next chunk
Utf8Decode(held, value) ==
  IF value = <<>> THEN [text |-> <<>>, held |-> held]
  ELSE IF held # <<>>
    THEN IF Head(value) = Trail
           THEN LET rest == Utf8Decode(<<>>, Tail(value))
                IN [text |-> <<Accent>> \o rest.text, held |-> rest.held]
           ELSE LET rest == Utf8Decode(<<>>, value)
                IN [text |-> <<Replacement>> \o rest.text, held |-> rest.held]
  ELSE IF Head(value) = Lead THEN Utf8Decode(<<Lead>>, Tail(value))
  ELSE LET rest == Utf8Decode(<<>>, Tail(value))
       IN [text |-> <<IF Head(value) = Trail THEN Replacement ELSE Head(value)>>
                      \o rest.text,
           held |-> rest.held]

RECURSIVE Split(_)
\* text.split('\n'): the parts between the newlines, at least one
Split(text) ==
  IF \A k \in 1..Len(text) : text[k] # Newline THEN <<text>>
  ELSE LET k == CHOOSE n \in 1..Len(text) :
                  text[n] = Newline /\ \A m \in 1..(n - 1) : text[m] # Newline
       IN <<SubSeq(text, 1, k - 1)>> \o Split(SubSeq(text, k + 1, Len(text)))

RECURSIVE Trim(_)
\* line.trim()
Trim(line) ==
  IF line = <<>> THEN line
  ELSE IF Head(line) = Blank THEN Trim(Tail(line))
  ELSE IF line[Len(line)] = Blank THEN Trim(SubSeq(line, 1, Len(line) - 1))
  ELSE line

\* JSON.parse(line) returns: the line is a number with blanks around it
Parses(line) ==
  /\ Trim(line) # <<>>
  /\ \A k \in 1..Len(Trim(line)) : Trim(line)[k] = Digit

\* the value JSON.parse(line) returns
JsonParse(line) == Trim(line)

RECURSIVE DecodeLines(_)
\* the for loop over lines (402-471): a blank line is passed over, a line that
\* JSON.parse rejects is logged and passed over
DecodeLines(lines) ==
  IF lines = <<>> THEN <<>>
  ELSE IF Trim(Head(lines)) = <<>> THEN DecodeLines(Tail(lines))
  ELSE IF Parses(Head(lines)) THEN <<JsonParse(Head(lines))>> \o DecodeLines(Tail(lines))
  ELSE DecodeLines(Tail(lines))

\* DecodeChunk with a buffer that is emptied after every chunk
DecodeChunk_DropsTail(buf, held, value) ==
  LET utf8 == Utf8Decode(held, value)
      lines == Split(utf8.text)
  IN [buffer |-> <<>>,
      held |-> utf8.held,
      parsed |-> DecodeLines(SubSeq(lines, 1, Len(lines) - 1))]

\* DecodeChunk without lines.pop(): the whole text read so far stays in the buffer
DecodeChunk_KeepsBuffer(buf, held, value) ==
  LET utf8 == Utf8Decode(held, value)
      lines == Split(buf \o utf8.text)
  IN [buffer |-> buf \o utf8.text,
      held |-> utf8.held,
      parsed |-> DecodeLines(SubSeq(lines, 1, Len(lines) - 1))]

\* the buffer and the parsed values after one chunk: buffer += decoder.decode(value),
\* lines = buffer.split('\n'), buffer = lines.pop() || ''
DecodeChunk(buf, held, value) ==
  LET utf8 == Utf8Decode(held, value)
      lines == Split(buf \o utf8.text)
  IN [buffer |-> lines[Len(lines)],
      held |-> utf8.held,
      parsed |-> DecodeLines(SubSeq(lines, 1, Len(lines) - 1))]

RECURSIVE ChunksOf(_, _)
\* the text cut after the offsets of cuts
ChunksOf(text, cuts) ==
  IF text = <<>> THEN <<>>
  ELSE IF cuts = {} THEN <<text>>
  ELSE LET c == CHOOSE x \in cuts : \A y \in cuts : x <= y
       IN <<SubSeq(text, 1, c)>>
            \o ChunksOf(SubSeq(text, c + 1, Len(text)), {x - c : x \in cuts \ {c}})

\* reader.read() yields a chunk (389, 395-471)
ReadChunk ==
  /\ ~readerDone
  /\ chunks # <<>>
  /\ LET after == DecodeChunk(buffer, pending, Head(chunks))
     IN /\ buffer' = after.buffer
        /\ pending' = after.held
        /\ decoded' = decoded \o after.parsed
  /\ chunks' = Tail(chunks)
  /\ UNCHANGED <<bytes, readerDone>>
  /\ UNCHANGED <<hookVars, runnerVars>>

\* reader.read() yields done (391-393): the loop ends, the buffer is dropped
ReadDone ==
  /\ ~readerDone
  /\ chunks = <<>>
  /\ readerDone' = TRUE
  /\ UNCHANGED <<bytes, chunks, buffer, pending, decoded>>
  /\ UNCHANGED <<hookVars, runnerVars>>

DecoderInitAt(text, cuts) ==
  /\ bytes = text
  /\ chunks = ChunksOf(text, cuts)
  /\ buffer = <<>>
  /\ pending = <<>>
  /\ decoded = <<>>
  /\ readerDone = FALSE

NextDecoder ==
  \/ ReadChunk
  \/ ReadDone

(***************************************************************************)
(* The words state (useLocalStorage.ts 10-61, useWords.ts 24, 109-121).    *)
(***************************************************************************)
\* the fields of a Word that generation reads or writes
Word(status, audioPath, explanation, errorMessage) ==
  [status |-> status, audioPath |-> audioPath, explanation |-> explanation,
   errorMessage |-> errorMessage]

\* { ...word, ...updates }
Merge(word, updates) ==
  [f \in DOMAIN word |-> IF f \in DOMAIN updates THEN updates[f] ELSE word[f]]

\* setValue of useLocalStorage: a function argument (here a function whose domain
\* holds the value it is applied to) is applied to storedValue, the value of the
\* render that created this setValue, and the result becomes the state
setValue(storedValue, value) == value[storedValue]

\* updateWord: setWords(prev => prev[id] ? { ...prev, [id]: { ...prev[id], ...updates } }
\* : prev); the result is the words state after the call
updateWord(storedValue, id, updates) ==
  LET updater == [prev \in {storedValue} |->
                    IF id \notin DOMAIN prev THEN prev
                    ELSE [prev EXCEPT ![id] = Merge(@, updates)]]
  IN setValue(storedValue, updater)

RECURSIVE UpdateEach(_, _, _, _)
\* ids.forEach(id => updateWord(id, updates)) by a callback whose setWords closes
\* over storedValue; current is the words state before the loop
UpdateEach(current, storedValue, ids, updates) ==
  IF ids = <<>> THEN current
  ELSE UpdateEach(updateWord(storedValue, Head(ids), updates), storedValue,
                  Tail(ids), updates)

(***************************************************************************)
(* generateAudioBatch (useWords.ts 302-503).                               *)
(***************************************************************************)
\* the callers that can hold an invocation of generateAudioBatch at the same time
Jobs == {"first", "second"}

RECURSIVE NoRepeatSeqs(_, _)
\* the sequences over S of length 0..n that name no element twice
NoRepeatSeqs(S, n) ==
  IF n = 0 THEN {<<>>}
  ELSE LET shorter == NoRepeatSeqs(S, n - 1)
       IN shorter \cup
            {Append(q[1], q[2]) :
               q \in {r \in shorter \X S : Len(r[1]) = n - 1 /\ r[2] \notin Range(r[1])}}

\* the wordIds arguments
IdLists == NoRepeatSeqs(Selectable \cup {UnknownId}, MaxIds)

\* wordIds.filter(id => words[id])
ValidWordIds(wordIds, closureWords) ==
  LET known(id) == id \in DOMAIN closureWords
  IN SelectSeq(wordIds, known)

RECURSIVE FirstSeen(_)
\* the keys of wordsByLanguage in insertion order
FirstSeen(languages) ==
  IF languages = <<>> THEN <<>>
  ELSE LET front == FirstSeen(SubSeq(languages, 1, Len(languages) - 1))
           last == languages[Len(languages)]
       IN IF last \in Range(front) THEN front ELSE Append(front, last)

\* WordsByLanguage with the groups in the reverse of the order in which their
\* languages were first seen
WordsByLanguage_LastSeenFirst(validWordIds) ==
  LET seen == FirstSeen([k \in 1..Len(validWordIds) |-> LanguageOf[validWordIds[k]]])
      order == [g \in 1..Len(seen) |-> seen[Len(seen) + 1 - g]]
  IN [g \in 1..Len(order) |->
        LET inGroup(id) == LanguageOf[id] = order[g]
        IN [language |-> order[g], ids |-> SelectSeq(validWordIds, inGroup)]]

\* wordsByLanguage as the for-in loop walks it: per language the ids in list order
WordsByLanguage(validWordIds) ==
  LET order == FirstSeen([k \in 1..Len(validWordIds) |-> LanguageOf[validWordIds[k]]])
  IN [g \in 1..Len(order) |->
        LET inGroup(id) == LanguageOf[id] = order[g]
        IN [language |-> order[g], ids |-> SelectSeq(validWordIds, inGroup)]]

\* wordIdMap[text]: the id of the word of the group with that text, if any
WordIdMap(group, text) ==
  IF text \in Range(group.ids) THEN text ELSE None

\* the store after the words were added (addWord, 84-107)
InitialWords == [id \in WordIds |-> Word(IDLE, NoPath, NoExplanation, None)]

NoJob ==
  [pc |-> "idle", wordIds |-> <<>>, closureWords |-> InitialWords, validWordIds |-> <<>>,
   group |-> 0, processedCount |-> 0, successfulCount |-> 0, failedCount |-> 0,
   stream |-> <<>>, update |-> None, error |-> None, logged |-> 0]

\* estimatedTimeRemaining is not set
NoEstimate == <<>>
Estimate(seconds) == <<seconds>>

ZeroProgress ==
  [total |-> 0, processed |-> 0, successful |-> 0, failed |-> 0,
   currentWord |-> None, startTime |-> None, estimatedTimeRemaining |-> NoEstimate]

AlreadyInProgress == "Another generation is already in progress"
NoWordsSelected == "No words selected for generation"
NoValidWords == "No valid words selected for generation"
TransportError == "transport error"

\* an invocation that has passed the three checks and has not yet settled
Running(j) == job[j].pc \in {"fetch", "read"}
Callable(j) == job[j].pc \in {"idle", "returned", "threw"}

\* Reject with the checks moved into the try block: the finally block runs
Reject_InsideTry(j, wordIds, message) ==
  /\ job' = [job EXCEPT ![j] = [NoJob EXCEPT !.pc = "threw", !.wordIds = wordIds,
                                            !.error = message]]
  /\ isGenerating' = FALSE
  /\ UNCHANGED <<words, generationProgress, rendered, single, etaDue>>

\* the call throws before the try block (302-315)
Reject(j, wordIds, message) ==
  /\ job' = [job EXCEPT ![j] = [NoJob EXCEPT !.pc = "threw", !.wordIds = wordIds,
                                            !.error = message]]
  /\ UNCHANGED <<words, isGenerating, generationProgress, rendered, single, etaDue>>

\* the call enters the try block and runs up to the first fetch (317-366)
Admit(j, wordIds) ==
  LET validWordIds == ValidWordIds(wordIds, rendered.words)
  IN /\ isGenerating' = TRUE
     /\ generationProgress' =
          [total |-> Len(validWordIds), processed |-> 0, successful |-> 0,
           failed |-> 0, currentWord |-> None, startTime |-> "now",
           estimatedTimeRemaining |-> NoEstimate]
     /\ words' = UpdateEach(words, rendered.words, validWordIds, [status |-> PENDING])
     /\ job' = [job EXCEPT ![j] = [NoJob EXCEPT !.pc = "fetch", !.wordIds = wordIds,
                                               !.closureWords = rendered.words,
                                               !.validWordIds = validWordIds,
                                               !.group = 1]]
     /\ etaDue' = TRUE
     /\ UNCHANGED <<rendered, single>>

\* generateAudioBatch(wordIds), called through the callback of the last render
GenerateAudioBatch(j, wordIds) ==
  IF rendered.isGenerating THEN Reject(j, wordIds, AlreadyInProgress)
  ELSE IF Len(wordIds) = 0 THEN Reject(j, wordIds, NoWordsSelected)
  ELSE IF Len(ValidWordIds(wordIds, rendered.words)) = 0
         THEN Reject(j, wordIds, NoValidWords)
  ELSE Admit(j, wordIds)

\* the second caller is the one that calls while an invocation of the first is running
Call(j) ==
  /\ Callable(j)
  /\ j = "second" => Running("first")
  /\ calls < MaxCalls
  /\ calls' = calls + 1
  /\ \E wordIds \in IdLists : GenerateAudioBatch(j, wordIds)
  /\ UNCHANGED <<runnerVars, decoderVars>>

\* the group the invocation is working on
CurrentGroup(j) == WordsByLanguage(job[j].validWordIds)[job[j].group]

\* fetch resolved with an OK response and a readable body (359-386); the response is
\* the stream of a run of processBatchRequest over the texts of the group
FetchResponds(j) ==
  /\ job[j].pc = "fetch"
  /\ LET group == CurrentGroup(j)
         \* wordsInLanguage.map(w => w.word): the text of a word is its id
         wordTexts == group.ids
     IN \E stream \in {RunnerStream(wordTexts, group.language, fails) :
                         fails \in SUBSET (1..Len(wordTexts))}
                      \cup {PreconditionStream} :
          job' = [job EXCEPT ![j].pc = "read", ![j].stream = stream]
  /\ UNCHANGED <<words, isGenerating, generationProgress, rendered, single, calls, etaDue>>
  /\ UNCHANGED <<runnerVars, decoderVars>>

\* the catch block (485-499) and the finally block (500-502)
CatchFinally(j, message) ==
  LET closureWords == job[j].closureWords
      stuck(id) == closureWords[id].status \in {PENDING, GENERATING}
  IN /\ words' = UpdateEach(words, closureWords, SelectSeq(job[j].validWordIds, stuck),
                            [status |-> ERROR, errorMessage |-> message])
     /\ isGenerating' = FALSE
     /\ etaDue' = (etaDue \/ isGenerating)
     /\ job' = [job EXCEPT ![j] = [NoJob EXCEPT !.pc = "threw",
                                               !.wordIds = job[j].wordIds,
                                               !.validWordIds = job[j].validWordIds,
                                               !.error = message,
                                               !.logged = job[j].logged]]

\* fetch rejects, the response is not OK, or the body has no reader (359-376)
FetchFails(j) ==
  /\ job[j].pc = "fetch"
  /\ CatchFinally(j, TransportError)
  /\ UNCHANGED <<generationProgress, rendered, single, calls>>
  /\ UNCHANGED <<runnerVars, decoderVars>>

\* reader.read() rejects (389)
ReadFails(j) ==
  /\ job[j].pc = "read"
  /\ CatchFinally(j, TransportError)
  /\ UNCHANGED <<generationProgress, rendered, single, calls>>
  /\ UNCHANGED <<runnerVars, decoderVars>>

\* a progress update (408-426)
OnProgress(j, update) ==
  LET wordId == WordIdMap(CurrentGroup(j), update.currentWord)
  IN /\ generationProgress' =
          [generationProgress EXCEPT
             !.processed = job[j].processedCount + update.processed,
             !.currentWord = update.currentWord]
     /\ words' = IF update.currentWord # None /\ wordId # None
                   THEN updateWord(job[j].closureWords, wordId, [status |-> GENERATING])
                   ELSE words
     /\ job' = [job EXCEPT ![j].stream = Tail(@), ![j].update = update.type]
     /\ etaDue' = TRUE
     /\ UNCHANGED isGenerating

\* a result update (427-460)
OnResult(j, update) ==
  LET wordId == WordIdMap(CurrentGroup(j), update.result.word)
      success == update.result.success
      successfulCount == job[j].successfulCount + (IF success THEN 1 ELSE 0)
      failedCount == job[j].failedCount + (IF success THEN 0 ELSE 1)
      processedCount == job[j].processedCount + 1
  IN IF wordId # None
       THEN /\ words' =
                 IF success
                   THEN updateWord(job[j].closureWords, wordId,
                                   [audioPath |-> update.result.filePath,
                                    explanation |-> update.result.explanation,
                                    status |-> COMPLETE])
                   ELSE updateWord(job[j].closureWords, wordId,
                                   [status |-> ERROR,
                                    errorMessage |-> update.result.error])
            /\ generationProgress' =
                 [generationProgress EXCEPT !.processed = processedCount,
                                            !.successful = successfulCount,
                                            !.failed = failedCount]
            /\ job' = [job EXCEPT ![j].stream = Tail(@), ![j].update = update.type,
                                  ![j].processedCount = processedCount,
                                  ![j].successfulCount = successfulCount,
                                  ![j].failedCount = failedCount]
            /\ etaDue' = TRUE
            /\ UNCHANGED isGenerating
       ELSE /\ job' = [job EXCEPT ![j].stream = Tail(@), ![j].update = update.type]
            /\ UNCHANGED <<words, isGenerating, generationProgress, etaDue>>

\* a complete update (461-464)
OnComplete(j, update) ==
  /\ job' = [job EXCEPT ![j].stream = Tail(@), ![j].update = update.type,
                        ![j].processedCount = update.processed]
  /\ UNCHANGED <<words, isGenerating, generationProgress, etaDue>>

\* an error update (465-470): the Error thrown at 466 is caught at 468 and logged
OnError(j, update) ==
  /\ job' = [job EXCEPT ![j].stream = Tail(@), ![j].update = update.type,
                        ![j].logged = @ + 1]
  /\ UNCHANGED <<words, isGenerating, generationProgress, etaDue>>

\* OnParseError with the exception of JSON.parse leaving the read loop: the catch
\* block of the invocation fails the job
OnParseError_Fatal(j) ==
  /\ CatchFinally(j, "Unexpected token")
  /\ UNCHANGED generationProgress

\* JSON.parse(line) throws (406): the catch of 468-470 logs and the loop goes on
\* with the next line
OnParseError(j) ==
  /\ job' = [job EXCEPT ![j].stream = Tail(@), ![j].logged = @ + 1]
  /\ UNCHANGED <<words, isGenerating, generationProgress, etaDue>>

\* one line of the response, parsed and applied (402-471)
ApplyUpdate(j, update) ==
  IF update.type = "malformed" THEN OnParseError(j)
  ELSE IF update.type = "progress" THEN OnProgress(j, update)
  ELSE IF update.type = "result" THEN OnResult(j, update)
  ELSE IF update.type = "complete" THEN OnComplete(j, update)
  ELSE OnError(j, update)

\* reader.read() yields the next line of the response
ReadLine(j) ==
  /\ job[j].pc = "read"
  /\ job[j].stream # <<>>
  /\ ApplyUpdate(j, Head(job[j].stream))
  /\ UNCHANGED <<rendered, single, calls>>
  /\ UNCHANGED <<runnerVars, decoderVars>>

\* NextGroup with the fetch of the next group not waiting for the end of the stream
NextGroup_BeforeDone(j) ==
  /\ job[j].pc = "read"
  /\ job[j].group < Len(WordsByLanguage(job[j].validWordIds))
  /\ job' = [job EXCEPT ![j].pc = "fetch", ![j].group = @ + 1]
  /\ UNCHANGED <<words, isGenerating, generationProgress, rendered, single, calls, etaDue>>
  /\ UNCHANGED <<runnerVars, decoderVars>>

\* reader.read() yields done (391-393) and a language group is left: the next fetch
NextGroup(j) ==
  /\ job[j].pc = "read"
  /\ job[j].stream = <<>>
  /\ job[j].group < Len(WordsByLanguage(job[j].validWordIds))
  /\ job' = [job EXCEPT ![j].pc = "fetch", ![j].group = @ + 1]
  /\ UNCHANGED <<words, isGenerating, generationProgress, rendered, single, calls, etaDue>>
  /\ UNCHANGED <<runnerVars, decoderVars>>

\* Return with the progress put back to zero at once
Return_ZeroesAtOnce(j) ==
  /\ job[j].pc = "read"
  /\ job[j].stream = <<>>
  /\ job[j].group >= Len(WordsByLanguage(job[j].validWordIds))
  /\ generationProgress' = ZeroProgress
  /\ isGenerating' = FALSE
  /\ job' = [job EXCEPT ![j] = [NoJob EXCEPT !.pc = "returned",
                                            !.wordIds = job[j].wordIds,
                                            !.validWordIds = job[j].validWordIds,
                                            !.update = job[j].update,
                                            !.logged = job[j].logged]]
  /\ etaDue' = TRUE
  /\ UNCHANGED <<words, rendered, single, calls>>
  /\ UNCHANGED <<runnerVars, decoderVars>>

\* reader.read() yields done and no group is left: the final update (475-484), the
\* return and the finally block
Return(j) ==
  /\ job[j].pc = "read"
  /\ job[j].stream = <<>>
  /\ job[j].group >= Len(WordsByLanguage(job[j].validWordIds))
  /\ generationProgress' =
       [generationProgress EXCEPT !.processed = Len(job[j].validWordIds),
                                  !.total = Len(job[j].validWordIds),
                                  !.successful = job[j].successfulCount,
                                  !.failed = job[j].failedCount]
  /\ isGenerating' = FALSE
  /\ job' = [job EXCEPT ![j] = [NoJob EXCEPT !.pc = "returned",
                                            !.wordIds = job[j].wordIds,
                                            !.validWordIds = job[j].validWordIds,
                                            !.update = job[j].update,
                                            !.logged = job[j].logged]]
  /\ etaDue' = TRUE
  /\ UNCHANGED <<words, rendered, single, calls>>
  /\ UNCHANGED <<runnerVars, decoderVars>>

(***************************************************************************)
(* generateAudio (useWords.ts 257-300).                                    *)
(***************************************************************************)
NoSingle == [pc |-> "idle", wordId |-> None, closureWords |-> InitialWords]
SingleError == "Failed to generate audio"

\* generateAudio(wordId) up to the fetch (258-273); an unknown id throws at 259
GenerateAudio(wordId) ==
  IF wordId \notin DOMAIN rendered.words
    THEN /\ single' = [NoSingle EXCEPT !.pc = "threw", !.wordId = wordId]
         /\ UNCHANGED words
    ELSE /\ words' = updateWord(rendered.words, wordId, [status |-> GENERATING])
         /\ single' = [pc |-> "fetch", wordId |-> wordId,
                       closureWords |-> rendered.words]

CallSingle ==
  /\ single.pc # "fetch"
  /\ calls < MaxCalls
  /\ calls' = calls + 1
  /\ \E wordId \in Selectable \cup {UnknownId} : GenerateAudio(wordId)
  /\ UNCHANGED <<isGenerating, generationProgress, rendered, job, etaDue>>
  /\ UNCHANGED <<runnerVars, decoderVars>>

\* the response is OK (280-290)
SingleSucceeds ==
  /\ single.pc = "fetch"
  /\ words' = updateWord(single.closureWords, single.wordId,
                         [audioPath |-> AudioPath(LanguageOf[single.wordId],
                                                  single.wordId),
                          explanation |-> Explanation(single.wordId),
                          status |-> COMPLETE])
  /\ single' = [NoSingle EXCEPT !.pc = "returned", !.wordId = single.wordId]
  /\ UNCHANGED <<isGenerating, generationProgress, rendered, job, calls, etaDue>>
  /\ UNCHANGED <<runnerVars, decoderVars>>

\* fetch rejects or the response is not OK (275-278, 291-299)
SingleFails ==
  /\ single.pc = "fetch"
  /\ words' = updateWord(single.closureWords, single.wordId,
                         [status |-> ERROR, errorMessage |-> SingleError])
  /\ single' = [NoSingle EXCEPT !.pc = "threw", !.wordId = single.wordId]
  /\ UNCHANGED <<isGenerating, generationProgress, rendered, job, calls, etaDue>>
  /\ UNCHANGED <<runnerVars, decoderVars>>

(***************************************************************************)
(* One invocation of generateAudioBatch over a longer list, with the       *)
(* effect that estimates the remaining time (useWords.ts 505-518).         *)
(***************************************************************************)
\* the wordIds arguments of the one invocation
JobLists == NoRepeatSeqs(WordIds, MaxJobIds)

\* the first call of generateAudioBatch after the words were added
CallJob ==
  /\ calls = 0
  /\ calls' = 1
  /\ \E wordIds \in JobLists : GenerateAudioBatch("first", wordIds)
  /\ UNCHANGED <<runnerVars, decoderVars>>

\* fetch resolved with a response in which one line is no JSON text
FetchGarbled(j) ==
  /\ job[j].pc = "fetch"
  /\ LET group == CurrentGroup(j)
         wordTexts == group.ids
     IN \E fails \in SUBSET (1..Len(wordTexts)) :
          LET stream == RunnerStream(wordTexts, group.language, fails)
          IN \E k \in 1..(Len(stream) + 1) :
               job' = [job EXCEPT ![j].pc = "read",
                                  ![j].stream = InsertAt(stream, k, MalformedLine)]
  /\ UNCHANGED <<words, isGenerating, generationProgress, rendered, single, calls, etaDue>>
  /\ UNCHANGED <<runnerVars, decoderVars>>

\* Date.now() - generationProgress.startTime.getTime(), in milliseconds
ElapsedMs == {0, 400, 3000}

\* Math.round(num / den) for den > 0: halves go up
Round(num, den) == (2 * num + den) \div (2 * den)

\* the effect of 505-518, run after a render of the current state
EtaEffect ==
  /\ etaDue
  /\ isGenerating
  /\ generationProgress.startTime # None
  /\ generationProgress.processed > 0
  /\ \E elapsedMs \in ElapsedMs :
       LET processed == generationProgress.processed
           wordsRemaining == generationProgress.total - processed
           \* (elapsedMs / processed * wordsRemaining) / 1000
           estimatedTimeRemaining == Round(elapsedMs * wordsRemaining, processed * 1000)
       IN generationProgress' =
            [generationProgress EXCEPT
               !.estimatedTimeRemaining = Estimate(estimatedTimeRemaining)]
  \* the updater returns a new object: the dependency generationProgress has changed
  /\ etaDue' = TRUE
  /\ UNCHANGED <<words, isGenerating, rendered, job, single, calls>>
  /\ UNCHANGED <<runnerVars, decoderVars>>

\* the effect of 505-518 runs and its condition is false: it sets nothing
EtaEffectIdle ==
  /\ etaDue
  /\ ~(isGenerating /\ generationProgress.startTime # None
         /\ generationProgress.processed > 0)
  /\ etaDue' = FALSE
  /\ UNCHANGED <<words, isGenerating, generationProgress, rendered, job, single, calls>>
  /\ UNCHANGED <<runnerVars, decoderVars>>

\* the timer of the effect of 520-535 is set: the effect last ran with the guard
\* released and processed above 0, and neither has changed since
ResetTimerSet == ~isGenerating /\ generationProgress.processed > 0

\* the timer fires, 5000 ms after it was set
ResetTimerFires ==
  /\ ResetTimerSet
  /\ generationProgress' = ZeroProgress
  /\ etaDue' = TRUE
  /\ UNCHANGED <<words, isGenerating, rendered, job, single, calls>>
  /\ UNCHANGED <<runnerVars, decoderVars>>

(***************************************************************************)
(* React renders the component: the callbacks are created anew over the    *)
(* current state (useCallback dependencies, 300 and 503; setValue, 61).    *)
(***************************************************************************)
Render ==
  /\ calls < MaxCalls
  /\ rendered # [words |-> words, isGenerating |-> isGenerating]
  /\ rendered' = [words |-> words, isGenerating |-> isGenerating]
  /\ UNCHANGED <<words, isGenerating, generationProgress, job, single, calls, etaDue>>
  /\ UNCHANGED <<runnerVars, decoderVars>>

(***************************************************************************)
(* The specifications.                                                     *)
(***************************************************************************)
HookInit ==
  /\ words = InitialWords
  /\ isGenerating = FALSE
  /\ generationProgress = ZeroProgress
  /\ rendered = [words |-> InitialWords, isGenerating |-> FALSE]
  /\ job = [j \in Jobs |-> NoJob]
  /\ single = NoSingle
  /\ calls = 0
  /\ etaDue = FALSE

Init ==
  /\ HookInit
  /\ RunnerInitAt(Body("array", <<>>, "spanish"), TRUE, TRUE, {}, "explain")
  /\ DecoderInitAt(<<>>, {})

Next ==
  \/ \E j \in Jobs : Call(j)
  \/ \E j \in Jobs : FetchResponds(j)
  \/ \E j \in Jobs : FetchFails(j)
  \/ \E j \in Jobs : ReadLine(j)
  \/ \E j \in Jobs : ReadFails(j)
  \/ \E j \in Jobs : NextGroup(j)
  \/ \E j \in Jobs : Return(j)
  \/ CallSingle
  \/ SingleSucceeds
  \/ SingleFails
  \/ Render
  \/ ResetTimerFires

Spec == Init /\ [][Next]_vars

InitRunner ==
  /\ HookInit
  /\ \E b \in Bodies : \E key \in BOOLEAN : \E setup \in BOOLEAN :
       \E fails \in SUBSET (1..MaxWords) :
         /\ fails \subseteq 1..Len(b.words)
         /\ \E failing \in {"explain", "speech"} :
              RunnerInitAt(b, key, setup, fails, failing)
  /\ DecoderInitAt(<<>>, {})

SpecRunner == InitRunner /\ [][NextRunner]_vars

NextJob ==
  \/ CallJob
  \/ FetchResponds("first")
  \/ FetchGarbled("first")
  \/ FetchFails("first")
  \/ ReadLine("first")
  \/ ReadFails("first")
  \/ NextGroup("first")
  \/ Return("first")
  \/ EtaEffect
  \/ EtaEffectIdle
  \/ ResetTimerFires

SpecJob == Init /\ [][NextJob]_vars

\* a timer that is set and not cleared fires, and an effect whose dependencies have
\* changed runs
SpecJobFair ==
  /\ SpecJob
  /\ WF_vars(ResetTimerFires)
  /\ WF_vars(EtaEffect)
  /\ WF_vars(EtaEffectIdle)

\* addWord (useWords.ts 84-107): setWords(prev => prev[id] ? prev : { ...prev, [id]:
\* { ..., status: IDLE } }); the result is the words state after the call
addWord(storedValue, id) ==
  LET updater == [prev \in {storedValue} |->
                    IF id \in DOMAIN prev THEN prev
                    ELSE [x \in DOMAIN prev \cup {id} |->
                            IF x = id THEN Word(IDLE, NoPath, NoExplanation, None)
                            ELSE prev[x]]]
  IN setValue(storedValue, updater)

\* deleteWord (useWords.ts 123-143): setWords(prev => { ...prev } without id)
deleteWord(storedValue, id) ==
  LET updater == [prev \in {storedValue} |-> [x \in DOMAIN prev \ {id} |-> prev[x]]]
  IN setValue(storedValue, updater)

RECURSIVE AddEach(_, _, _)
\* wordList.forEach(word => addWord(word)) by a callback whose setWords closes over
\* storedValue; current is the words state before the loop
AddEach(current, storedValue, ids) ==
  IF ids = <<>> THEN current
  ELSE AddEach(addWord(storedValue, Head(ids)), storedValue, Tail(ids))

\* handleAddWord with autoGenerate on: addWord(word), then generateAudio(wordId)
\* through the callback of the same render
HandleAddWord(word) ==
  /\ single.pc # "fetch"
  /\ calls < MaxCalls
  /\ calls' = calls + 1
  /\ IF word \notin DOMAIN rendered.words
       THEN \* words[wordId] of the closure is undefined: Word not found
            /\ words' = addWord(rendered.words, word)
            /\ single' = [NoSingle EXCEPT !.pc = "threw", !.wordId = word]
       ELSE GenerateAudio(word)
  /\ UNCHANGED <<isGenerating, generationProgress, rendered, job, etaDue>>
  /\ UNCHANGED <<runnerVars, decoderVars>>

\* handleAddBulkWords with autoGenerate on: addWord for each word of the list, then
\* generateAudioBatch(addedWordIds) through the callback of the same render
HandleAddBulkWords(wordList) ==
  /\ Callable("first")
  /\ calls < MaxCalls
  /\ calls' = calls + 1
  /\ LET added == AddEach(words, rendered.words, wordList)
         rejected(message) ==
           /\ words' = added
           /\ job' = [job EXCEPT !["first"] = [NoJob EXCEPT !.pc = "threw",
                                                          !.wordIds = wordList,
                                                          !.error = message]]
           /\ UNCHANGED <<isGenerating, generationProgress, rendered, single, etaDue>>
     IN IF rendered.isGenerating THEN rejected(AlreadyInProgress)
        ELSE IF Len(ValidWordIds(wordList, rendered.words)) = 0
               THEN rejected(NoValidWords)
        ELSE Admit("first", wordList)
  /\ UNCHANGED <<runnerVars, decoderVars>>

\* a click on the delete button of a word shown by the last render
DeleteWord ==
  /\ \E id \in DOMAIN rendered.words : words' = deleteWord(rendered.words, id)
  /\ UNCHANGED <<isGenerating, generationProgress, rendered, job, single, calls, etaDue>>
  /\ UNCHANGED <<runnerVars, decoderVars>>

\* the lists of words typed into the bulk input
WordLists == NoRepeatSeqs(Selectable, MaxIds) \ {<<>>}

\* the hook over every store of words that were added before
InitStore ==
  /\ \E stored \in SUBSET WordIds :
       LET initial == [id \in stored |-> InitialWords[id]]
       IN /\ words = initial
          /\ rendered = [words |-> initial, isGenerating |-> FALSE]
  /\ isGenerating = FALSE
  /\ generationProgress = ZeroProgress
  /\ job = [j \in Jobs |-> NoJob]
  /\ single = NoSingle
  /\ calls = 0
  /\ etaDue = FALSE
  /\ RunnerInitAt(Body("array", <<>>, "spanish"), TRUE, TRUE, {}, "explain")
  /\ DecoderInitAt(<<>>, {})

NextStore ==
  \/ \E word \in Selectable : HandleAddWord(word)
  \/ \E wordList \in WordLists : HandleAddBulkWords(wordList)
  \/ DeleteWord
  \/ FetchResponds("first")
  \/ FetchFails("first")
  \/ ReadLine("first")
  \/ ReadFails("first")
  \/ NextGroup("first")
  \/ Return("first")
  \/ SingleSucceeds
  \/ SingleFails
  \/ Render

SpecStore == InitStore /\ [][NextStore]_vars

\* every body of up to MaxBytes bytes, cut into chunks at every set of offsets
InitDecoder ==
  /\ HookInit
  /\ RunnerInitAt(Body("array", <<>>, "spanish"), TRUE, TRUE, {}, "explain")
  /\ \E text \in SeqsUpTo(Bytes, MaxBytes) :
       \E cuts \in SUBSET (1..(MaxBytes - 1)) :
         /\ cuts \subseteq 1..(Len(text) - 1)
         /\ DecoderInitAt(text, cuts)

SpecDecoder == InitDecoder /\ [][NextDecoder]_vars

(***************************************************************************)
(* Properties of processBatchRequest, under SpecRunner.                    *)
(***************************************************************************)
\* the preconditions of the loop: a non-empty words array, the API key, the setup
PreconditionsHold == UsableBody /\ apiKey /\ setupOk

RunnerEnded == runnerPc \in {"finally", "returned"}

\* what the run is to emit for its body and its failing provider calls
Expected == RunnerStream(body.words, body.language, providerFails)

\* C9: when the preconditions hold, the run emits for i = 0..n-1 in index order
\* progress{processed: i, total: n, currentWord: words[i]} and then
\* result{processed: i + 1, total: n, result of words[i]}, then one
\* complete{processed: n, total: n, allResults}, and nothing else: at every point
\* of the loop the updates handed to safeWrite are that sequence up to the point
\* reached, at the end they are all of it, and the lines on the wire are the same
\* unless the writer has errored.
C9_ExactSequence ==
  /\ runnerPc = "progress" => emitted = SubSeq(Expected, 1, 2 * i)
  /\ runnerPc \in {"provider", "speech"} => emitted = SubSeq(Expected, 1, 2 * i + 1)
  /\ (RunnerEnded /\ PreconditionsHold) => emitted = Expected
  /\ (PreconditionsHold /\ writerState # "errored") => wire = emitted

\* the run of two words with a provider that never fails has ended
C9_Witness ==
  /\ runnerPc = "returned"
  /\ PreconditionsHold
  /\ body.words = <<"a", "b">>
  /\ providerFails = {}
  /\ Len(wire) = 5

\* C10: whichever provider calls fail, the run goes through all N words and its
\* complete update carries N results in index order, success = false exactly for
\* the words whose provider call failed.
C10_FailureIsolation ==
  (RunnerEnded /\ PreconditionsHold) =>
    /\ i = Len(body.words)
    /\ emitted # <<>>
    /\ LET last == emitted[Len(emitted)]
       IN /\ last.type = "complete"
          /\ Len(last.allResults) = Len(body.words)
          /\ \A k \in 1..Len(body.words) :
               /\ last.allResults[k].word = body.words[k]
               /\ last.allResults[k].success = (k \notin providerFails)

\* the run of <<a, b, c>> where the provider call of b fails has ended
C10_Witness ==
  /\ runnerPc = "returned"
  /\ PreconditionsHold
  /\ body.words = <<"a", "b", "c">>
  /\ providerFails = {2}
  /\ results[2].success = FALSE
  /\ results[3].success = TRUE

\* C11: when a precondition of the loop fails (the body cannot be parsed, words is
\* no array or is empty, the API key is missing, the setup throws), the run hands
\* exactly one update to safeWrite, an error update, and ends: at no point do the
\* updates handed over or the lines on the wire hold a progress, result or
\* complete update.
C11_PreconditionError ==
  ~PreconditionsHold =>
    /\ Len(emitted) <= 1
    /\ \A k \in 1..Len(emitted) : emitted[k].type = "error" /\ emitted[k].error # None
    /\ \A k \in 1..Len(wire) : wire[k].type = "error"
    /\ Len(wire) <= Len(emitted)
    /\ RunnerEnded => Len(emitted) = 1
    /\ runnerPc \in {"parse", "finally", "returned"}

\* the run of a usable body without an API key has ended, its one error update is
\* on the wire
C11_Witness ==
  /\ runnerPc = "returned"
  /\ UsableBody
  /\ ~apiKey
  /\ Len(wire) = 1
  /\ wire[1].type = "error"

\* C12: on every way out of processBatchRequest (the complete update, an exception,
\* a failed precondition) writer.close() is called exactly once, in the finally
\* block and not before; the call does not raise out of the handler even when the
\* writer has errored, so the run always ends by returning.
C12_ClosedExactlyOnce ==
  /\ runnerPc \in {"parse", "progress", "provider", "speech", "finally", "returned"}
  /\ closeCalls = (IF runnerPc = "returned" THEN 1 ELSE 0)
  /\ writerClosed = (runnerPc = "returned")
  /\ runnerPc = "returned" => writerState \in {"closed", "errored"}
  /\ writerState = "closed" => runnerPc = "returned"

\* the run has gone through its loop and returned after closing a writer that had
\* errored under it
C12_Witness ==
  /\ runnerPc = "returned"
  /\ PreconditionsHold
  /\ writerState = "errored"
  /\ closeCalls = 1
  /\ Len(emitted) > Len(wire)

\* a write of the run failed: safeWrite returned false for it
WriteFailed == Len(wire) < Len(emitted)

\* C25: a stream write failure is fatal to the group: after a write to the
\* transport has failed, the runner makes no further provider call
C25_WriteFailureFatal ==
  [][WriteFailed => providerCalls' = providerCalls]_vars

\* the places of the log that hold a call of that kind for that item
CallsOf(call, item) ==
  {p \in 1..Len(providerCalls) :
     providerCalls[p].call = call /\ providerCalls[p].item = item}

\* the result updates written so far
ResultsWritten == Len(SelectSeq(emitted, LAMBDA e : e.type = "result"))

\* C30: for each item the explanation is requested exactly once; speech is requested
\* at most once, only after the explanation call of that item returned, and with the
\* explanation as its input; a call that failed is not made again; and no provider
\* call for item i+1 is made before the result update of item i was written
C30_ProviderProtocol ==
  /\ \A k \in 1..Len(results) :
       /\ Cardinality(CallsOf("explain", k)) = 1
       /\ Cardinality(CallsOf("speech", k)) <= 1
       /\ Throws(k, "explain") => CallsOf("speech", k) = {}
  /\ \A p \in 1..Len(providerCalls) :
       LET c == providerCalls[p]
       IN /\ c.item <= ResultsWritten + 1
          /\ c.item \in 1..Len(body.words)
          /\ Cardinality(CallsOf(c.call, c.item)) = 1
          /\ c.call = "explain" => c.input = Prompt(body.words[c.item])
          /\ c.call = "speech" =>
               /\ p > 1
               /\ providerCalls[p - 1] =
                    ProviderCall("explain", c.item, Prompt(body.words[c.item]))
               /\ ~Throws(c.item, "explain")
               /\ c.input = Explanation(body.words[c.item])

\* a run of two words where the speech call of the first one failed: four calls,
\* none repeated
C30_Witness ==
  /\ runnerPc = "returned"
  /\ body.words = <<"a", "b">>
  /\ providerFails = {1}
  /\ failingCall = "speech"
  /\ Len(providerCalls) = 4
  /\ results[1].success = FALSE
  /\ results[2].success = TRUE

\* the places of a list of updates that hold a complete or an error update
Terminals(list) == {p \in 1..Len(list) : list[p].type \in {"complete", "error"}}

\* at most one terminal update, at the end, and an error update only as the first
OneTerminalAtEnd(list) ==
  /\ Cardinality(Terminals(list)) <= 1
  /\ \A p \in Terminals(list) : p = Len(list)
  /\ \A p \in 1..Len(list) : list[p].type = "error" => p = 1

\* C37: in every stream of processBatchRequest at most one complete or error update
\* is written, nothing is written after it, and an error update has no progress or
\* result update before it; this holds for the updates handed to safeWrite and for
\* those that reached the transport
C37_OneTerminalEvent ==
  /\ OneTerminalAtEnd(emitted)
  /\ OneTerminalAtEnd(wire)
  /\ Terminals(emitted) # {} => runnerPc \in {"finally", "returned"}

\* a run over two words has written its complete update behind two progress and two
\* result updates and has returned
C37_Witness ==
  /\ runnerPc = "returned"
  /\ Len(wire) = 5
  /\ wire[5].type = "complete"
  /\ wire[2].type = "result"

(***************************************************************************)
(* Properties of the hook, under Spec.                                     *)
(***************************************************************************)
AdmissionErrors == {AlreadyInProgress, NoWordsSelected, NoValidWords}
InFlight == {j \in Jobs : Running(j)}
Unfinished == {PENDING, GENERATING}

\* C1: at every point at most one batch job is in flight: a call made after another
\* call was admitted and before that call has released the guard is rejected.
C1_SingleFlight == Cardinality(InFlight) <= 1

\* the invocation j takes the error update at the head of its response
ErrorConsumed(j) ==
  /\ job[j].pc = "read"
  /\ job[j].stream # <<>>
  /\ Head(job[j].stream).type = "error"
  /\ job'[j] # job[j]
  /\ job'[j].error # TransportError

\* C2: when an error update is consumed, every word of the job that is Pending or
\* Generating is set to Error with a message, the guard is released and the
\* invocation fails.
C2_ErrorEventFailsJob ==
  [][\A j \in Jobs :
       ErrorConsumed(j) =>
         /\ job'[j].pc = "threw"
         /\ ~isGenerating'
         /\ \A id \in Range(job[j].validWordIds) :
              words[id].status \in Unfinished =>
                words'[id].status = ERROR /\ words'[id].errorMessage # None]_vars

\* the invocation j rejects because the transport of a group fails
TransportFails(j) ==
  /\ Running(j)
  /\ job'[j].pc = "threw"
  /\ job'[j].error = TransportError

\* C3: when the transport of a group fails, every word of the job whose status is
\* Pending or Generating at that moment is Error with the failure message once the
\* invocation has rejected, and the guard is released.
C3_TransportFailureFailsItems ==
  [][\A j \in Jobs :
       TransportFails(j) =>
         /\ ~isGenerating'
         /\ \A id \in Range(job[j].validWordIds) :
              words[id].status \in Unfinished =>
                /\ words'[id].status = ERROR
                /\ words'[id].errorMessage = TransportError]_vars

AllowedEdges ==
  {<<IDLE, PENDING>>, <<PENDING, GENERATING>>, <<GENERATING, COMPLETE>>,
   <<GENERATING, ERROR>>, <<COMPLETE, PENDING>>, <<ERROR, PENDING>>}

\* C4: every change of the status of a word follows one of the edges Idle->Pending,
\* Pending->Generating, Generating->Complete, Generating->Error, Complete->Pending,
\* Error->Pending.  Stated for the steps of batch jobs of one caller, with no
\* single-item generation and no second caller in the behaviour so far.
C4_StatusEdges ==
  [][(/\ single = NoSingle /\ single' = NoSingle
      /\ job["second"] = NoJob /\ job'["second"] = NoJob) =>
       \A id \in WordIds :
         words'[id].status # words[id].status =>
           <<words[id].status, words'[id].status>> \in AllowedEdges]_vars

\* the call of j is admitted: it reaches the fetch of its first group
Admitted(j) == ~Running(j) /\ job'[j].pc = "fetch"

\* C5: on admission, before the transport of the first group is opened, the guard
\* is held, every selected word is Pending and the progress is {total: number of
\* selected ids, processed: 0, successful: 0, failed: 0, startTime}.
C5_AdmissionState ==
  [][\A j \in Jobs :
       Admitted(j) =>
         /\ isGenerating'
         /\ \A id \in Range(job'[j].validWordIds) : words'[id].status = PENDING
         /\ generationProgress' =
              [total |-> Len(job'[j].validWordIds), processed |-> 0,
               successful |-> 0, failed |-> 0, currentWord |-> None,
               startTime |-> "now", estimatedTimeRemaining |-> NoEstimate]]_vars

\* j is called with a list that names a stored word while no job is in flight
SubmittedWhileIdle(j) ==
  /\ InFlight = {}
  /\ calls' = calls + 1
  /\ job'[j] # job[j]
  /\ Range(job'[j].wordIds) \cap WordIds # {}

\* the first invocation of the behaviour takes the first progress update of its
\* response, the one that shows a word Generating
FirstGenerating(j) ==
  /\ calls = 1
  /\ job[j].pc = "read"
  /\ job[j].group = 1
  /\ job[j].update = None
  /\ job'[j].update = "progress"

\* C6: a list submitted while no job is in flight is admitted, and every word of it
\* is Pending before any word of the job is seen Generating.
C6_PendingBeforeGenerating ==
  [][\A j \in Jobs :
       /\ SubmittedWhileIdle(j) => job'[j].pc = "fetch"
       /\ FirstGenerating(j) =>
            \A id \in Range(job[j].validWordIds) : words[id].status = PENDING]_vars

\* the step is a call of generateAudioBatch by j
CalledBy(j) == calls' = calls + 1 /\ single' = single /\ job'[j] # job[j]

RejectedWith(j, message) == job'[j].pc = "threw" /\ job'[j].error = message

\* C7: a call is rejected with AlreadyRunning when a job is in flight, with
\* EmptyRequest when the list is empty, with NoValidItems when every id of the
\* list is unknown, and is admitted in every other case.
C7_AdmissionOutcome ==
  [][\A j \in Jobs :
       CalledBy(j) =>
         IF InFlight # {} THEN RejectedWith(j, AlreadyInProgress)
         ELSE IF job'[j].wordIds = <<>> THEN RejectedWith(j, NoWordsSelected)
         ELSE IF Range(job'[j].wordIds) \cap WordIds = {}
                THEN RejectedWith(j, NoValidWords)
         ELSE job'[j].pc = "fetch"]_vars

\* the step is a call of generateAudioBatch that is rejected
RejectedCall ==
  /\ calls' = calls + 1
  /\ single' = single
  /\ \A j \in Jobs : job'[j] # job[j] => job'[j].error \in AdmissionErrors

\* C8: a rejected call changes nothing: the words, the progress and the guard are
\* as before, no response is opened for it, and no other invocation is touched.
C8_RejectionChangesNothing ==
  [][RejectedCall =>
       /\ UNCHANGED <<words, isGenerating, generationProgress, rendered>>
       /\ \A j \in Jobs :
            job'[j] # job[j] =>
              /\ job'[j].pc = "threw"
              /\ job'[j].stream = <<>>
              /\ \A k \in Jobs \ {j} : job'[k] = job[k]]_vars

\* the second caller was rejected as already running while the job of the first is
\* in flight and holds the guard
C8_Witness ==
  /\ Running("first")
  /\ isGenerating
  /\ job["second"].pc = "threw"
  /\ job["second"].error = AlreadyInProgress

\* the words of the job of j while it is in flight
WordsOf(j) == IF Running(j) THEN Range(job[j].validWordIds) ELSE {}

\* C17: while a batch job that includes a word is in flight, the status, the audio
\* path and the error message of that word change only in steps of that job: no
\* other generation changes them.  Stated for the one batch caller of a behaviour
\* in which no second caller has called, so that the other generation is a call
\* of generateAudio.
C17_OneJobPerItem ==
  [][(job["second"] = NoJob /\ job'["second"] = NoJob) =>
       \A id \in WordsOf("first") :
         words'[id] # words[id] => single' = single]_vars

\* the endpoint has announced a word of the response of j and the result of that
\* word has not arrived: the run behind the response is at its provider calls
\* (route.ts 150-178)
ProviderBusy(j) ==
  /\ job[j].pc = "read"
  /\ job[j].stream # <<>>
  /\ Head(job[j].stream).type = "result"

\* the request of generateAudio is in flight: the single-item route is at its
\* provider calls
SingleBusy == single.pc = "fetch"

\* C18: at every moment at most one provider request is outstanding, over the
\* groups of a job, consecutive jobs and single-item generation.  Stated for
\* behaviours in which no second caller of generateAudioBatch has called.
C18_OneProviderRequest ==
  job["second"] = NoJob =>
    Cardinality({j \in Jobs : ProviderBusy(j)}) + (IF SingleBusy THEN 1 ELSE 0) <= 1

\* the ids of the groups of j that come after the group it is working on
NotStarted(j) ==
  LET groups == WordsByLanguage(job[j].validWordIds)
  IN UNION {Range(groups[g].ids) : g \in (job[j].group + 1)..Len(groups)}

\* the invocation of j fails: it leaves the try block through the catch block
Fails(j) == Running(j) /\ job'[j].pc = "threw"

\* C20: when a group of a job fails outright, the words of the groups that were not
\* yet started keep the status they have at that moment; in particular none of
\* them is set to Error by the failure, which is the part stated here.  Stated for
\* the one batch caller of a behaviour without a second caller and without
\* single-item generation.
C20_LaterGroupsKeepStatus ==
  [][(/\ single = NoSingle /\ single' = NoSingle
      /\ job["second"] = NoJob /\ job'["second"] = NoJob
      /\ Fails("first")) =>
       \A id \in NotStarted("first") :
         words'[id].status = ERROR => words[id].status = ERROR]_vars

(***************************************************************************)
(* Properties of one invocation, under SpecJob.                            *)
(***************************************************************************)
\* C13: while a job is in flight generationProgress.processed never decreases,
\* from update to update within a group and from one group to the next.
C13_ProcessedMonotonic ==
  [][\A j \in Jobs :
       (Running(j) /\ job'[j].pc \in {"fetch", "read"}) =>
         generationProgress'.processed >= generationProgress.processed]_vars

\* C14: estimatedTimeRemaining is absent or at least 0 at every point of a job,
\* whatever updates the response carries and whenever the effect runs.
C14_EstimateNotNegative ==
  \/ generationProgress.estimatedTimeRemaining = NoEstimate
  \/ generationProgress.estimatedTimeRemaining[1] >= 0

\* C33: at every point while a job is in flight, 0 <= processed <= total
C33_ProcessedWithinTotal ==
  InFlight # {} =>
    /\ 0 <= generationProgress.processed
    /\ generationProgress.processed <= generationProgress.total

\* C34: while a job is in flight successful + failed <= total, and when the job
\* returns successful + failed = total
C34_CountsWithinTotal ==
  /\ InFlight # {} =>
       generationProgress.successful + generationProgress.failed
         <= generationProgress.total
  /\ (job["first"].pc = "returned" /\ generationProgress.total > 0) =>
       generationProgress.successful + generationProgress.failed
         = generationProgress.total

(***************************************************************************)
(* Properties of the decoder, under SpecDecoder.                           *)
(***************************************************************************)
RECURSIVE Concat(_)
\* the texts of a list of chunks, joined
Concat(list) == IF list = <<>> THEN <<>> ELSE Head(list) \o Concat(Tail(list))

\* C15: a body fed to the decoder in chunks cut at any byte offsets yields the same
\* values in the same order as the same body fed in one chunk, and leaves the same
\* rest in the buffer and in the TextDecoder; this holds after every chunk for the
\* bytes read up to it.
C15_ChunkIndependence ==
  LET read == Len(bytes) - Len(Concat(chunks))
      whole == DecodeChunk(<<>>, <<>>, SubSeq(bytes, 1, read))
  IN /\ decoded = whole.parsed
     /\ buffer = whole.buffer
     /\ pending = whole.held

\* the first record of a body of two records was decoded, and a chunk has ended
\* inside the second record: its start is in the buffer, its end is still to come
C15_Witness ==
  /\ bytes = <<Digit, Newline, Digit, Newline>>
  /\ chunks = <<<<Newline>>>>
  /\ buffer = <<Digit>>
  /\ decoded = <<<<Digit>>>>

RECURSIVE Encode(_)
\* what safeWrite puts on the transport for a list of updates:
\* JSON.stringify(data) + '\n' for each of them
Encode(events) ==
  IF events = <<>> THEN <<>>
  ELSE Head(events) \o <<Newline>> \o Encode(Tail(events))

\* the JSON texts of the updates, and the lists of updates whose bytes fit the bound
EventTexts == SeqsUpTo({Digit}, MaxBytes) \ {<<>>}
EventLists == {events \in SeqsUpTo(EventTexts, MaxBytes) : Len(Encode(events)) <= MaxBytes}

\* the updates whose last byte, the newline, was read
Arrived(events) ==
  LET read == SubSeq(bytes, 1, Len(bytes) - Len(Concat(chunks)))
  IN SubSeq(events, 1, Len(SelectSeq(read, LAMBDA x : x = Newline)))

\* C26: when the body is what safeWrite wrote for a list of updates, then under every
\* chunking the updates handed on by the read loop are, after every chunk, exactly the
\* updates that have arrived whole, once each and in the order written; when the
\* stream has ended they are all the updates written, the last one included
C26_EveryEventOnce ==
  \A events \in EventLists :
    bytes = Encode(events) =>
      /\ decoded = Arrived(events)
      /\ readerDone => decoded = events

\* two updates of different texts were written, and the stream has ended
C26_Witness ==
  /\ readerDone
  /\ bytes = <<Digit, Newline, Digit, Digit, Newline>>
  /\ decoded = <<<<Digit>>, <<Digit, Digit>>>>

\* the step takes a line that is no JSON text from the response of j
MalformedConsumed(j) ==
  /\ job[j].pc = "read"
  /\ job[j].stream # <<>>
  /\ Head(job[j].stream).type = "malformed"
  /\ job'[j] # job[j]
  /\ job'[j].error # TransportError

\* C16: a line that JSON.parse rejects is logged and passed over: no word and no
\* field of the progress changes, the guard stays held, the job does not fail and
\* its counters are as before, and the lines after it are all still to be applied,
\* in their order.
C16_MalformedLineSkipped ==
  [][\A j \in Jobs :
       MalformedConsumed(j) =>
         /\ UNCHANGED <<words, isGenerating, generationProgress>>
         /\ job'[j] = [job[j] EXCEPT !.stream = Tail(@), !.logged = @ + 1]
         /\ job'[j].pc = "read"]_vars

\* the job of two words has returned with both results counted although a line of
\* its response was no JSON text
C16_Witness ==
  /\ job["first"].pc = "returned"
  /\ job["first"].logged = 1
  /\ job["first"].update = "complete"
  /\ Len(job["first"].validWordIds) = 2
  /\ generationProgress.successful = 2
  /\ generationProgress.processed = 2
  /\ ~isGenerating

\* the place of a valid id in the list of the call
PlaceIn(list, id) == CHOOSE k \in 1..Len(list) : list[k] = id

\* the groups partition the list by language, in first-seen order of the languages
\* and in list order within a group
PartitionedByLanguage(list, groups) ==
  /\ \A k \in 1..Len(list) :
       Cardinality({gp \in (1..Len(groups)) \X (1..Len(list)) :
                      /\ gp[2] <= Len(groups[gp[1]].ids)
                      /\ groups[gp[1]].ids[gp[2]] = list[k]}) = 1
  /\ \A g \in 1..Len(groups) :
       /\ groups[g].ids # <<>>
       /\ \A p \in 1..Len(groups[g].ids) :
            /\ groups[g].ids[p] \in Range(list)
            /\ LanguageOf[groups[g].ids[p]] = groups[g].language
       /\ \A p, q \in 1..Len(groups[g].ids) :
            p < q => PlaceIn(list, groups[g].ids[p]) < PlaceIn(list, groups[g].ids[q])
       /\ \A h \in 1..Len(groups) :
            g < h => /\ groups[g].language # groups[h].language
                     /\ PlaceIn(list, groups[g].ids[1]) < PlaceIn(list, groups[h].ids[1])

\* C19: the valid ids of a job are partitioned by language: every valid id is in
\* exactly one group, the groups stand in the order in which their language is
\* first seen in the list, the ids of a group keep the order of the list; the job
\* requests the groups one at a time in that order, each request carrying the
\* words of its group.
C19_PartitionByLanguage ==
  /\ [](\A j \in Jobs :
          Running(j) =>
            /\ PartitionedByLanguage(job[j].validWordIds,
                                     WordsByLanguage(job[j].validWordIds))
            /\ job[j].group \in 1..Len(WordsByLanguage(job[j].validWordIds))
            /\ \A k \in 1..Len(job[j].stream) :
                 /\ job[j].stream[k].type = "progress" =>
                      job[j].stream[k].currentWord \in Range(CurrentGroup(j).ids)
                 /\ job[j].stream[k].type = "result" =>
                      job[j].stream[k].result.language = CurrentGroup(j).language)
  /\ [][\A j \in Jobs :
          /\ (~Running(j) /\ job'[j].pc = "fetch") => job'[j].group = 1
          /\ (Running(j) /\ job'[j].pc \in {"fetch", "read"}
                /\ job'[j].group # job[j].group) =>
               (job[j].stream = <<>> /\ job'[j].group = job[j].group + 1)]_vars

\* the job of <<a, c, b>> has had the response of its first group, a and b, and
\* reads the response of its second group, c
C19_Witness ==
  /\ job["first"].pc = "read"
  /\ job["first"].validWordIds = <<"a", "c", "b">>
  /\ job["first"].group = 2
  /\ job["first"].processedCount = 2
  /\ Len(job["first"].stream) = 3
  /\ job["first"].stream[1].currentWord = "c"

RECURSIVE TotalOfGroups(_, _)
\* the number of words of the first k groups
TotalOfGroups(groups, k) ==
  IF k = 0 THEN 0 ELSE Len(groups[k].ids) + TotalOfGroups(groups, k - 1)

\* the step applies an update of the given type from the response of j
Consumes(j, type) ==
  /\ job[j].pc = "read"
  /\ job[j].stream # <<>>
  /\ Head(job[j].stream).type = type
  /\ job'[j].pc = "read"
  /\ job'[j].stream = Tail(job[j].stream)

\* C22: when a progress update is applied, the word it names becomes Generating,
\* currentWord becomes that word, and processed becomes the number of words of
\* all groups before the current one plus the processed count of the update.
C22_ProgressApplied ==
  [][\A j \in Jobs :
       Consumes(j, "progress") =>
         LET update == Head(job[j].stream)
             groups == WordsByLanguage(job[j].validWordIds)
         IN /\ words'[update.currentWord].status = GENERATING
            /\ generationProgress'.currentWord = update.currentWord
            /\ generationProgress'.processed =
                 TotalOfGroups(groups, job[j].group - 1) + update.processed]_vars

\* C23: when the complete update of the k-th group of a job is applied, the offset
\* carried to the next group, processedCount, is the sum of the totals of the
\* groups 1..k.  Stated for jobs all of whose responses so far were regular: no
\* error update and no malformed line.
C23_OffsetAdvances ==
  [][\A j \in Jobs :
       (Consumes(j, "complete") /\ job[j].logged = 0) =>
         job'[j].processedCount =
           TotalOfGroups(WordsByLanguage(job[j].validWordIds), job[j].group)]_vars

\* C24: when a result update is applied, the texts of the group being pairwise
\* distinct, exactly the word the result names changes: to Complete with the audio
\* path and the explanation of the result when it is a success, to Error with the
\* error message of the result otherwise; and exactly one of the counters
\* successful and failed goes up, by one.  Stated for the one batch caller of a
\* behaviour in which no second caller has called.
C24_ResultApplied ==
  [][(job["second"] = NoJob /\ job'["second"] = NoJob /\ Consumes("first", "result")) =>
       LET result == Head(job["first"].stream).result
           id == result.word
       IN /\ id \in Range(CurrentGroup("first").ids)
          /\ \A other \in WordIds \ {id} : words'[other] = words[other]
          /\ IF result.success
               THEN /\ words'[id].status = COMPLETE
                    /\ words'[id].audioPath = result.filePath
                    /\ words'[id].explanation = result.explanation
                    /\ generationProgress'.successful = generationProgress.successful + 1
                    /\ generationProgress'.failed = generationProgress.failed
               ELSE /\ words'[id].status = ERROR
                    /\ words'[id].errorMessage = result.error
                    /\ generationProgress'.failed = generationProgress.failed + 1
                    /\ generationProgress'.successful = generationProgress.successful]_vars

\* C29: the groups of a job do not overlap: the job goes on to another group only
\* by one step, from the point where reader.read() has reported the end of the
\* stream of group k to the fetch of group k + 1
C29_GroupsInSequence ==
  [][\A j \in Jobs :
       (Running(j) /\ (Running(j))' /\ job'[j].group # job[j].group) =>
         /\ job[j].pc = "read"
         /\ job[j].stream = <<>>
         /\ job'[j].pc = "fetch"
         /\ job'[j].stream = <<>>
         /\ job'[j].group = job[j].group + 1]_vars

\* the stream of the spanish group was read to its end and the request for the
\* french group is out
C29_Witness ==
  /\ job["first"].validWordIds = <<"a", "c">>
  /\ job["first"].pc = "fetch"
  /\ job["first"].group = 2
  /\ job["first"].update = "complete"

\* the word a progress or a result update is about
ItemOf(update) ==
  IF update.type = "progress" THEN update.currentWord ELSE update.result.word

\* C31: applying a progress or a result update changes the record of the word it is
\* about and of no other word: the status, the audio path, the explanation and the
\* error message of every other word, those set by earlier updates of the same job
\* included, stay as they were
C31_OtherItemsUnchanged ==
  [][\A j \in Jobs :
       (Consumes(j, "progress") \/ Consumes(j, "result")) =>
         \A other \in WordIds \ {ItemOf(Head(job[j].stream))} :
           words'[other] = words[other]]_vars

(***************************************************************************)
(* Properties of the end of a job, under SpecJobFair.                      *)
(***************************************************************************)
\* the invocation of j returns: the streams of all its groups have ended
Returns(j) == Running(j) /\ job'[j].pc = "returned"

\* C21: when a job returns, the guard is released and the progress holds the final
\* tally of the job, processed = total = the number of its words with the counts
\* of its successes and failures; the tally stays until the timer of the reset
\* effect fires, and that timer does fire and puts the progress back to
\* {total: 0, processed: 0, successful: 0, failed: 0}.
C21_TallyKeptThenReset ==
  /\ [][\A j \in Jobs :
          Returns(j) =>
            /\ ~isGenerating'
            /\ generationProgress' =
                 [generationProgress EXCEPT
                    !.processed = Len(job[j].validWordIds),
                    !.total = Len(job[j].validWordIds),
                    !.successful = job[j].successfulCount,
                    !.failed = job[j].failedCount]
            /\ generationProgress'.total > 0]_vars
  /\ [][(job["first"].pc = "returned" /\ generationProgress' # generationProgress) =>
          (ResetTimerSet /\ generationProgress' = ZeroProgress)]_vars
  /\ (job["first"].pc = "returned") ~> (generationProgress = ZeroProgress)

\* the job of two words has returned and its tally, one success and one failure,
\* is still shown
C21_Witness ==
  /\ job["first"].pc = "returned"
  /\ ~isGenerating
  /\ generationProgress.total = 2
  /\ generationProgress.processed = 2
  /\ generationProgress.successful = 1
  /\ generationProgress.failed = 1

\* the job has ended: by its return, or through the catch and the finally block
Ended(j) == job[j].pc \in {"returned", "threw"}

\* the counts of the progress are those of the zero record
ProgressIsZero ==
  /\ generationProgress.total = 0
  /\ generationProgress.processed = 0
  /\ generationProgress.successful = 0
  /\ generationProgress.failed = 0

\* C27: after a job has ended, by its return or by a failure, and also by a failure
\* that came before any item was processed, the progress is eventually put back to
\* {total: 0, processed: 0, successful: 0, failed: 0}
C27_EventuallyReset ==
  Ended("first") ~> ProgressIsZero

\* a job that was admitted has ended
AdmittedEnded(j) == Ended(j) /\ job[j].validWordIds # <<>>

\* C28: on every way the processing of an admitted batch ends, by its return, after
\* an error update or after a failure of the transport, the guard is released, and
\* a call made after the end, with no job in flight, is not rejected as already in
\* progress
C28_GuardReleased ==
  [][\A j \in Jobs :
       /\ (Running(j) /\ Ended(j)') => ~isGenerating'
       /\ (CalledBy(j) /\ InFlight = {} /\ \E k \in Jobs : AdmittedEnded(k))
            => ~RejectedWith(j, AlreadyInProgress)]_vars

\* C32: when generateAudioBatch returns, every word admitted to the job is Complete
\* or Error: none is left Pending or Generating
C32_AllSettledOnReturn ==
  [][\A j \in Jobs :
       Returns(j) =>
         \A id \in Range(job[j].validWordIds) :
           words'[id].status \in {COMPLETE, ERROR}]_vars

\* the callback of the reset timer runs
TimerStep ==
  /\ ResetTimerSet
  /\ generationProgress' = ZeroProgress
  /\ UNCHANGED <<words, isGenerating, job, single>>

\* C38: the reset timer set at the end of a job does not zero the progress of a later
\* job: the timer does not fire while a job is in flight
C38_TimerSparesLaterJob ==
  [][TimerStep => InFlight = {}]_vars

\* the effect of 505-518 is due to run and will store an estimate
EtaPending ==
  /\ etaDue
  /\ isGenerating
  /\ generationProgress.startTime # None
  /\ generationProgress.processed > 0

\* C39: the estimate reaches a fixed point: in a behaviour in which the updates of
\* the stream stop arriving (every response is finite), from some point on the
\* effect is no longer due to store an estimate, so the progress stops changing
C39_EtaSettles ==
  <>[](~EtaPending)

(***************************************************************************)
(* Properties of the store of words, under SpecStore.                      *)
(***************************************************************************)
\* the step is a write of the invocation j: an update applied, or its catch block
JobWrites(j) == Running(j) /\ job'[j] # job[j]

\* C35: a word deleted while a job is in flight stays deleted: no write of the job,
\* for a progress update, a result update or in the catch block, puts a word into
\* the store that was not in it before the write
C35_DeletedStaysDeleted ==
  [][\A j \in Jobs : JobWrites(j) => DOMAIN words' \subseteq DOMAIN words]_vars

\* C36: an id that addWord has just returned is known to the generation call made
\* next in the same handler: generateAudio does not throw Word not found for a word
\* the handler has added, and generateAudioBatch does not throw No valid words for a
\* list of words the handler has added
C36_AddedIdsKnown ==
  [][calls' = calls + 1 =>
       /\ ~(/\ single'.pc = "threw"
            /\ single' # single
            /\ single'.wordId \in DOMAIN words')
       /\ ~(/\ RejectedWith("first", NoValidWords)
            /\ job'["first"] # job["first"]
            /\ Range(job'["first"].wordIds) \cap DOMAIN words' # {})]_vars

====
